---- MODULE Spec2Model ----
(***************************************************************************)
(* Model of the playback state machine of src/media/player.rs              *)
(* (MusicPlayer, the implementation of the Player trait).                  *)
(*                                                                         *)
(* Time is a monotonic integer clock `now` (Instant::now()); it advances   *)
(* only between calls of the player's methods (action Elapse).  A Duration *)
(* is a natural number of clock units.  The rodio Sink is an external      *)
(* collaborator: the model keeps its pause flag (the only sink state the   *)
(* player reads back, through is_paused) and records, for every method     *)
(* call, the sequence of sink methods it invoked.                          *)
(***************************************************************************)
EXTENDS Integers, Sequences, FiniteSets

VARIABLES
    now,            \* the monotonic clock read by Instant::now()/elapsed()
    play_list,      \* MusicPlayer.play_list.lists
    current_time,   \* MusicPlayer.current_time
    total_time,     \* MusicPlayer.total_time
    initialized,    \* MusicPlayer.initialized
    sink,           \* MusicPlayer._sink: [paused]
    panicked,       \* the thread unwound out of todo!()
    ever_added,     \* history: some add_to_list has returned true
    last            \* history: the last call, its arguments, its result, the
                    \* sink methods it invoked and the play list it started on

vars == <<now, play_list, current_time, total_time, initialized, sink,
          panicked, ever_added, last>>

----------------------------------------------------------------------------
(* Bounds of the model. *)
MaxTime == 3        \* the clock stops advancing here
MaxDur  == 2        \* longest track duration that add_to_list is given
MaxList == 2        \* add_to_list (once = false) is not called on a longer list

Names == {"A", "B"}
Durations == 1 .. MaxDur

\* What the file behind a Media does in add_to_list.
FileKinds == {"ok", "open_err", "probe_err", "decode_err"}
\* A Media whose file plays has any duration; the duration of one that fails
\* and of a remote one is never looked at.
Medias ==
    [src : {"Local"}, name : Names, file : {"ok"}, duration : Durations]
    \cup [src : {"Local"}, name : Names, file : FileKinds \ {"ok"}, duration : {1}]
    \cup [src : {"Http"}, name : Names, file : {"ok"}, duration : {1}]

----------------------------------------------------------------------------
(* enum PlayStatus; the unused fields of a variant are 0. *)
Waiting == [tag |-> "Waiting", instant |-> 0, duration |-> 0]
Playing(instant, duration) ==
    [tag |-> "Playing", instant |-> instant, duration |-> duration]
Stopped(duration) == [tag |-> "Stopped", instant |-> 0, duration |-> duration]

(* struct PlayListItem *)
PlayListItem(name, duration, status) ==
    [name |-> name, duration |-> duration, current_pos |-> 0, status |-> status]

(* Instant::now() and Instant::elapsed() *)
Instant_now == now
elapsed(instant) == now - instant

(* The player as a value: the fields of MusicPlayer, the result of the     *)
(* call in progress and the sink methods it has invoked so far.            *)
Self ==
    [play_list |-> play_list, current_time |-> current_time,
     total_time |-> total_time, initialized |-> initialized,
     sink |-> sink, ret |-> TRUE, calls |-> <<>>]

----------------------------------------------------------------------------
(* rodio::Sink, as far as the player drives and observes it. *)
NewSink == [paused |-> FALSE]
sink_play(self)  == [self EXCEPT !.sink.paused = FALSE, !.calls = Append(@, "play")]
sink_pause(self) == [self EXCEPT !.sink.paused = TRUE, !.calls = Append(@, "pause")]
sink_stop(self)  == [self EXCEPT !.calls = Append(@, "stop")]
sink_append(self) == [self EXCEPT !.calls = Append(@, "append")]
sink_try_new(self) == [self EXCEPT !.sink = NewSink, !.calls = Append(@, "try_new")]

set_status(self, status) == [self EXCEPT !.play_list[1].status = status]

----------------------------------------------------------------------------
(* fn play(&mut self) -> bool *)
\* variant: play() restarts a track that is already playing
play_status_restart(status) ==
    CASE status.tag = "Waiting" -> Playing(Instant_now, 0)
      [] status.tag = "Playing" -> Playing(Instant_now, 0)
      [] status.tag = "Stopped" -> Playing(Instant_now, status.duration)

\* variant: play() does not resume a stopped track
play_status_keeps_stopped(status) ==
    CASE status.tag = "Waiting" -> Playing(Instant_now, 0)
      [] status.tag = "Playing" -> status
      [] status.tag = "Stopped" -> status

play_status(status) ==
    CASE status.tag = "Waiting" -> Playing(Instant_now, 0)
      [] status.tag = "Playing" -> status
      [] status.tag = "Stopped" -> Playing(Instant_now, status.duration)

play(self) ==
    LET s == sink_play(self) IN
    [(IF s.play_list # <<>>
        THEN set_status(s, play_status(Head(s.play_list).status))
        ELSE s) EXCEPT !.ret = TRUE]

(* fn stop(&mut self) -> bool *)
\* variant: stop() records the head as stopped, as pause() does
stop_records(self) ==
    LET s == sink_stop(self) IN
    [(IF s.play_list # <<>> /\ Head(s.play_list).status.tag = "Playing"
        THEN set_status(s, Stopped(Head(s.play_list).status.duration
                                   + elapsed(Head(s.play_list).status.instant)))
        ELSE s) EXCEPT !.ret = TRUE]

stop(self) == [sink_stop(self) EXCEPT !.ret = TRUE]

(* fn pause(&mut self) -> bool *)
\* variant: pause() forgets what was played before the last start
pause_status_forget(status) ==
    CASE status.tag = "Waiting" -> status
      [] status.tag = "Playing" -> Stopped(elapsed(status.instant))
      [] status.tag = "Stopped" -> status

pause_status(status) ==
    CASE status.tag = "Waiting" -> status
      [] status.tag = "Playing" ->
            Stopped(status.duration + elapsed(status.instant))
      [] status.tag = "Stopped" -> status

pause(self) ==
    LET s == sink_pause(self) IN
    [(IF s.play_list # <<>>
        THEN set_status(s, pause_status(Head(s.play_list).status))
        ELSE s) EXCEPT !.ret = TRUE]

(* fn resume(&mut self) -> bool *)
\* variant: resume() starts an unstarted track, as play() does
resume_status_starts(status) ==
    CASE status.tag = "Waiting" -> Playing(Instant_now, 0)
      [] status.tag = "Playing" -> status
      [] status.tag = "Stopped" -> Playing(Instant_now, status.duration)

resume_status(status) ==
    CASE status.tag = "Waiting" -> status
      [] status.tag = "Playing" -> status
      [] status.tag = "Stopped" -> Playing(Instant_now, status.duration)

resume(self) ==
    LET s == sink_play(self) IN
    [(IF s.play_list # <<>>
        THEN set_status(s, resume_status(Head(s.play_list).status))
        ELSE s) EXCEPT !.ret = TRUE]

(* fn is_playing(&self) -> bool *)
\* variant: the test of the pause flag is inverted
is_playing_inverted(self) ==
    self.initialized /\ self.sink.paused /\ self.play_list # <<>>

\* variant: the pause flag of the sink is not looked at
is_playing_ignore_pause(self) == self.initialized /\ self.play_list # <<>>

\* variant: the play list is not looked at
is_playing_sink_only(self) == self.initialized /\ ~self.sink.paused

is_playing(self) ==
    self.initialized /\ ~self.sink.paused /\ self.play_list # <<>>

(* fn get_progress(&self) -> (f32, f32) *)
get_progress(self) == <<0, 0>>

(* fn tick(&mut self) *)
\* variant: a stopped track keeps accruing wall-clock time
stopped_time_running(status) == status.duration + elapsed(status.instant)

\* dur.clone(): the position shown for a stopped track
stopped_time(status) == status.duration

\* variant: the total shown is the item's cached position
total_of_pos(song) == song.current_pos

\* song.duration.clone(): the total shown for the head
total_of(song) == song.duration

\* variant: the next track is started when the finished one is removed
retire_and_start(self) ==
    LET rest == Tail(self.play_list) IN
    [self EXCEPT !.play_list =
        IF rest = <<>> THEN rest
        ELSE [rest EXCEPT ![1].status = Playing(Instant_now, 0)]]

\* self.play_list.lists.remove(0): the finished head is dropped
retire(self) == [self EXCEPT !.play_list = Tail(@)]

\* variant: strict comparison
finished_strict(n, song) == n > song.duration

\* now.ge(&song.duration): the track has been played to its end
finished(n, song) == n >= song.duration

tick(self) ==
    LET playing == is_playing(self) IN
    IF self.play_list # <<>>
    THEN LET song == Head(self.play_list)
             status == song.status
         IN CASE status.tag = "Waiting" ->
                    IF playing THEN set_status(self, Playing(Instant_now, 0))
                               ELSE self
              [] status.tag = "Playing" ->
                    LET n == elapsed(status.instant) + status.duration IN
                    IF finished(n, song)
                    THEN retire(self)
                    ELSE [self EXCEPT !.current_time = n,
                                      !.total_time = total_of(song)]
              [] status.tag = "Stopped" ->
                    [self EXCEPT !.current_time = stopped_time(status),
                                 !.total_time = total_of(song)]
    ELSE [stop(self) EXCEPT !.ret = self.ret]

(* fn next(&mut self) -> bool *)
\* variant: off by one
has_next_any(len) == len > 0

has_next(len) == len > 1

next(self) ==
    IF has_next(Len(self.play_list))
    THEN [stop(self) EXCEPT !.play_list = Tail(@), !.ret = TRUE]
    ELSE [self EXCEPT !.ret = FALSE]

(* fn add_to_list(&mut self, media: Media, once: bool) -> bool,            *)
(* the Source::Local arm.                                                  *)
\* variant: the sink is replaced but the list is not cleared
replace_all_keep_list(self) == sink_try_new(sink_stop(self))

\* if once { stop the sink, take a new one, clear the list }
replace_all(self) ==
    [sink_try_new(sink_stop(self)) EXCEPT !.play_list = <<>>]

\* variant: the pushed item is marked as playing at once
new_item_playing(media) ==
    PlayListItem(media.name, media.duration, Playing(Instant_now, 0))

\* the PlayListItem pushed for a decoded file
new_item(media) == PlayListItem(media.name, media.duration, Waiting)

\* variant: the new item is queued without play()
add_decoded_no_play(self, media, once) ==
    LET s1 == [self EXCEPT !.initialized = TRUE]
        s2 == IF once THEN replace_all(s1) ELSE s1
        s3 == sink_append(s2)
        s4 == [s3 EXCEPT !.play_list = Append(@, new_item(media))]
        s6 == tick(s4)
    IN [s6 EXCEPT !.ret = TRUE]

\* the Ok(dec) arm: the file opened, its duration was probed, it decodes
add_decoded(self, media, once) ==
    LET s1 == [self EXCEPT !.initialized = TRUE]
        s2 == IF once THEN replace_all(s1) ELSE s1
        s3 == sink_append(s2)
        s4 == [s3 EXCEPT !.play_list = Append(@, new_item(media))]
        s5 == play(s4)
        s6 == tick(s5)
    IN [s6 EXCEPT !.ret = TRUE]

\* variant: the list is replaced before the file is decoded
add_to_list_early_replace(self, media, once) ==
    IF media.file = "open_err" THEN [self EXCEPT !.ret = FALSE]
    ELSE IF media.file = "probe_err" THEN [self EXCEPT !.ret = FALSE]
    ELSE IF media.file = "decode_err"
         THEN [(IF once THEN replace_all(self) ELSE self) EXCEPT !.ret = FALSE]
    ELSE add_decoded(self, media, once)

add_to_list(self, media, once) ==
    IF media.file = "open_err" THEN [self EXCEPT !.ret = FALSE]
    ELSE IF media.file = "probe_err" THEN [self EXCEPT !.ret = FALSE]
    ELSE IF media.file = "decode_err" THEN [self EXCEPT !.ret = FALSE]
    ELSE add_decoded(self, media, once)

----------------------------------------------------------------------------
(* The state after MusicPlayer::new(). *)
NoMedia == [src |-> "Local", name |-> "A", file |-> "ok", duration |-> 1]
Call(op, media, once, r) ==
    [op |-> op, media |-> media, once |-> once, ret |-> r.ret,
     calls |-> r.calls, pre |-> play_list]

Init ==
    /\ now = 0
    /\ play_list = <<>>
    /\ current_time = 0
    /\ total_time = 0
    /\ initialized = FALSE
    /\ sink = NewSink
    /\ panicked = FALSE
    /\ ever_added = FALSE
    /\ last = [op |-> "new", media |-> NoMedia, once |-> FALSE, ret |-> TRUE,
               calls |-> <<"try_new">>, pre |-> <<>>]

(* Store the fields of the player value r back into the state. *)
Store(r) ==
    /\ play_list' = r.play_list
    /\ current_time' = r.current_time
    /\ total_time' = r.total_time
    /\ initialized' = r.initialized
    /\ sink' = r.sink

(* Time passes between two calls. *)
Elapse ==
    /\ ~panicked
    /\ now < MaxTime
    /\ now' = now + 1
    /\ last' = [op |-> "elapse", media |-> NoMedia, once |-> FALSE,
                ret |-> TRUE, calls |-> <<>>, pre |-> play_list]
    /\ UNCHANGED <<play_list, current_time, total_time, initialized, sink,
                   panicked, ever_added>>

AddToList ==
    /\ ~panicked
    /\ \E media \in Medias, once \in BOOLEAN :
         /\ media.src = "Local"
         /\ once \/ Len(play_list) < MaxList
         /\ LET r == add_to_list(Self, media, once) IN
              /\ Store(r)
              /\ ever_added' = (ever_added \/ r.ret)
              /\ last' = Call("add_to_list", media, once, r)
    /\ UNCHANGED <<now, panicked>>

(* Source::Http: todo!() panics before anything is touched. *)
AddToListHttp ==
    /\ ~panicked
    /\ \E media \in Medias, once \in BOOLEAN :
         /\ media.src = "Http"
         /\ last' = [op |-> "panic", media |-> media, once |-> once,
                     ret |-> FALSE, calls |-> <<>>, pre |-> play_list]
    /\ panicked' = TRUE
    /\ UNCHANGED <<now, play_list, current_time, total_time, initialized,
                   sink, ever_added>>

Do(op, r) ==
    /\ ~panicked
    /\ Store(r)
    /\ last' = Call(op, NoMedia, FALSE, r)
    /\ UNCHANGED <<now, panicked, ever_added>>

Play   == Do("play", play(Self))
Stop   == Do("stop", stop(Self))
Pause  == Do("pause", pause(Self))
Resume == Do("resume", resume(Self))
Tick   == Do("tick", tick(Self))
NextOp == Do("next", next(Self))
IsPlaying == Do("is_playing", [Self EXCEPT !.ret = is_playing(Self)])
GetProgress == Do("get_progress", [Self EXCEPT !.ret = get_progress(Self)])

Next ==
    \/ Elapse
    \/ AddToList
    \/ AddToListHttp
    \/ Play
    \/ Stop
    \/ Pause
    \/ Resume
    \/ Tick
    \/ NextOp
    \/ IsPlaying
    \/ GetProgress

Spec == Init /\ [][Next]_vars

----------------------------------------------------------------------------
(* The caller that ends by only calling tick().  Up to MaxTime it calls    *)
(* any method; after MaxTime it calls nothing but tick(), at least once    *)
(* per clock unit, and the clock runs on for as long as the tracks still   *)
(* queued can last (a track needs its duration, and one unit may pass      *)
(* before the tick() that starts it).                                      *)
DrainTime == MaxTime + MaxList * (MaxDur + 1)

Calling == now <= MaxTime

ElapseDrain ==
    /\ ~panicked
    /\ now >= MaxTime
    /\ now < DrainTime
    /\ last.op = "tick"
    /\ now' = now + 1
    /\ last' = [op |-> "elapse", media |-> NoMedia, once |-> FALSE,
                ret |-> TRUE, calls |-> <<>>, pre |-> play_list]
    /\ UNCHANGED <<play_list, current_time, total_time, initialized, sink,
                   panicked, ever_added>>

CallAddToList == Calling /\ AddToList
CallPlay == Calling /\ Play
CallStop == Calling /\ Stop
CallPause == Calling /\ Pause
CallResume == Calling /\ Resume
CallNextOp == Calling /\ NextOp

LiveNext ==
    \/ Elapse
    \/ ElapseDrain
    \/ Tick
    \/ CallAddToList
    \/ CallPlay
    \/ CallStop
    \/ CallPause
    \/ CallResume
    \/ CallNextOp

LiveSpec ==
    Init /\ [][LiveNext]_vars /\ WF_vars(Tick) /\ WF_vars(ElapseDrain)

----------------------------------------------------------------------------
(* Properties.  A step "of op" is a step whose next state has last.op = op; *)
(* every action sets last, so these are exactly the steps of that method.   *)

StatusOf(list) == Head(list).status
\* list with the status of its head replaced
WithStatus(list, status) == [list EXCEPT ![1].status = status]
Elapsed(status) == (now - status.instant) + status.duration

\* C1: play() returns true; the head goes Waiting -> Playing(now, 0),
\* Playing(t0, d) -> unchanged, Stopped(d) -> Playing(now, d); on an empty
\* list nothing changes; no other item, the length, current_time and
\* total_time never change.
C1_PlayTable ==
    [][last'.op = "play" =>
        /\ last'.ret = TRUE
        /\ current_time' = current_time
        /\ total_time' = total_time
        /\ play_list = <<>> => play_list' = <<>>
        /\ play_list # <<>> =>
             LET st == StatusOf(play_list) IN
             /\ st.tag = "Waiting" =>
                   play_list' = WithStatus(play_list, Playing(now, 0))
             /\ st.tag = "Playing" => play_list' = play_list
             /\ st.tag = "Stopped" =>
                   play_list' = WithStatus(play_list, Playing(now, st.duration))
    ]_vars

\* play() has resumed a paused track some time after it was started
C1_Witness ==
    /\ last.op = "play"
    /\ last.pre # <<>>
    /\ StatusOf(last.pre).tag = "Stopped"
    /\ StatusOf(last.pre).duration > 0
    /\ StatusOf(play_list) = Playing(now, StatusOf(last.pre).duration)

\* C2: pause() pauses the sink; the head goes Playing(t0, d) ->
\* Stopped(d + (now - t0)) and a Waiting or Stopped head is left as it is,
\* so a second pause() changes nothing however late it comes.
C2_PauseTable ==
    [][last'.op = "pause" =>
        /\ last'.ret = TRUE
        /\ sink'.paused
        /\ "pause" \in {last'.calls[i] : i \in DOMAIN last'.calls}
        /\ play_list = <<>> => play_list' = <<>>
        /\ play_list # <<>> =>
             LET st == StatusOf(play_list) IN
             /\ st.tag = "Playing" =>
                   play_list' = WithStatus(play_list,
                                  Stopped(st.duration + (now - st.instant)))
             /\ st.tag \in {"Waiting", "Stopped"} => play_list' = play_list
    ]_vars

\* a second pause() of a stopped track, later than the first
C2_Witness ==
    /\ last.op = "pause"
    /\ last.pre # <<>>
    /\ StatusOf(last.pre).tag = "Stopped"
    /\ StatusOf(last.pre).duration > 0
    /\ now > StatusOf(last.pre).duration
    /\ play_list = last.pre

\* C3: resume() only takes a Stopped(d) head to Playing(now, d); a Waiting
\* head stays Waiting and a Playing head is left as it is.
C3_ResumeTable ==
    [][last'.op = "resume" =>
        /\ play_list = <<>> => play_list' = <<>>
        /\ play_list # <<>> =>
             LET st == StatusOf(play_list) IN
             /\ st.tag = "Stopped" =>
                   play_list' = WithStatus(play_list, Playing(now, st.duration))
             /\ st.tag \in {"Waiting", "Playing"} => play_list' = play_list
    ]_vars

\* resume() has been called on an unstarted head
C3_Witness ==
    /\ last.op = "resume"
    /\ last.pre # <<>>
    /\ StatusOf(last.pre).tag = "Waiting"
    /\ StatusOf(play_list).tag = "Waiting"

\* C4: tick() on a head Playing(t0, d) with (now - t0) + d >= duration
\* removes exactly the head; tick() never removes more than one item and
\* removes nothing when the head is Waiting, Stopped or Playing with
\* elapsed < duration.
C4_TickRemovesHead ==
    [][last'.op = "tick" /\ play_list # <<>> =>
        LET st == StatusOf(play_list) IN
        IF st.tag = "Playing" /\ Elapsed(st) >= Head(play_list).duration
        THEN play_list' = Tail(play_list)
        ELSE /\ Len(play_list') = Len(play_list)
             /\ \A i \in DOMAIN play_list :
                   /\ play_list'[i].name = play_list[i].name
                   /\ play_list'[i].duration = play_list[i].duration
    ]_vars

\* tick() has retired a finished head that had a successor
C4_Witness ==
    /\ last.op = "tick"
    /\ Len(last.pre) >= 2
    /\ StatusOf(last.pre).tag = "Playing"
    /\ Elapsed(StatusOf(last.pre)) = Head(last.pre).duration
    /\ play_list = Tail(last.pre)

\* C5: next() on a list of length 0 or 1 returns false and leaves the list
\* unchanged; on a longer list it returns true and removes exactly the
\* head, the second item becoming the head with the status it had.
C5_Next ==
    [][last'.op = "next" =>
        IF Len(play_list) <= 1
        THEN last'.ret = FALSE /\ play_list' = play_list
        ELSE /\ last'.ret = TRUE
             /\ play_list' = Tail(play_list)
             /\ Head(play_list') = play_list[2]
    ]_vars

\* next() was refused on a list of one playing item
C5_Witness ==
    /\ last.op = "next"
    /\ last.ret = FALSE
    /\ Len(last.pre) = 1
    /\ StatusOf(last.pre).tag = "Playing"
    /\ play_list = last.pre

\* C6: over play/pause/resume/tick calls and the passage of time on one
\* item, already_played (the second field of Playing, the field of Stopped)
\* never decreases, and after every tick() it is <= the item's duration.
C6_AlreadyPlayedBounded ==
    [][last'.op \in {"play", "pause", "resume", "tick"} =>
        /\ (play_list # <<>> /\ Len(play_list') = Len(play_list)) =>
              StatusOf(play_list').duration >= StatusOf(play_list).duration
        /\ (last'.op = "tick" /\ play_list' # <<>>) =>
              StatusOf(play_list').duration <= Head(play_list').duration
    ]_vars

\* C7: no wall-clock time is counted while the head is Stopped(d): the
\* passage of time, tick(), pause() and stop() leave it Stopped(d), and
\* resume() or play(), however late, makes it Playing(now, d).
C7_StoppedTimeFrozen ==
    [][(play_list # <<>> /\ StatusOf(play_list).tag = "Stopped") =>
        LET d == StatusOf(play_list).duration IN
        /\ last'.op \in {"elapse", "tick", "pause", "stop"} =>
              /\ play_list' = play_list
              /\ last'.op = "tick" => current_time' = d
        /\ last'.op \in {"resume", "play"} =>
              play_list' = WithStatus(play_list, Playing(now, d))
    ]_vars

\* resume() of a track stopped at d, later than it could have played to
C7_Witness ==
    /\ last.op = "resume"
    /\ last.pre # <<>>
    /\ StatusOf(last.pre).tag = "Stopped"
    /\ StatusOf(last.pre).duration > 0
    /\ now > StatusOf(last.pre).duration
    /\ current_time = StatusOf(last.pre).duration
    /\ StatusOf(play_list) = Playing(now, StatusOf(last.pre).duration)

\* C8: is_playing() is true iff some add_to_list has succeeded, the sink is
\* not paused and the play list is not empty; it is false whenever the
\* play list is empty.
C8_IsPlaying ==
    /\ is_playing(Self) <=> (ever_added /\ ~sink.paused /\ play_list # <<>>)
    /\ play_list = <<>> => ~is_playing(Self)
    /\ last.op = "is_playing" =>
          (last.ret <=> (ever_added /\ ~sink.paused /\ play_list # <<>>))

\* is_playing() has answered false on an emptied list with a running sink
C8_Witness ==
    /\ last.op = "is_playing"
    /\ last.ret = FALSE
    /\ ever_added
    /\ ~sink.paused
    /\ play_list = <<>>

\* C9: every item at an index > 0 has status Waiting; only the head can be
\* Playing or Stopped.
C9_OnlyHeadStarted ==
    \A i \in DOMAIN play_list : i > 1 => play_list[i].status = Waiting

\* a second item has been queued behind a stopped head
C9_Witness ==
    /\ Len(play_list) >= 2
    /\ StatusOf(play_list).tag = "Stopped"
    /\ last.op = "pause"

\* C10: an add_to_list that fails returns false and leaves the play list,
\* current_time, total_time, the initialized flag and the sink as they were,
\* with once = true too.
C10_FailedAddAtomic ==
    [][(last'.op = "add_to_list" /\ last'.media.file # "ok") =>
        /\ last'.ret = FALSE
        /\ last'.calls = <<>>
        /\ UNCHANGED <<play_list, current_time, total_time, initialized,
                       sink, ever_added>>
    ]_vars

\* a once = true add has failed to decode on a non-empty list
C10_Witness ==
    /\ last.op = "add_to_list"
    /\ last.ret = FALSE
    /\ last.once
    /\ last.media.file = "decode_err"
    /\ last.pre # <<>>
    /\ play_list = last.pre

Called(call) == call \in {last.calls[i] : i \in DOMAIN last.calls}

\* C11: after a successful add_to_list(B, once = true) the play list holds
\* exactly one item, B, the sink is a fresh one, and nothing of the
\* previous items is left.
C11_OnceReplaces ==
    (last.op = "add_to_list" /\ last.ret = TRUE /\ last.once) =>
        /\ Len(play_list) = 1
        /\ play_list[1] = PlayListItem(last.media.name, last.media.duration,
                                       Playing(now, 0))
        /\ last.calls = <<"stop", "try_new", "append", "play">>
        /\ sink = NewSink

\* a once = true add has replaced a list whose head was stopped part-way
C11_Witness ==
    /\ last.op = "add_to_list"
    /\ last.ret = TRUE
    /\ last.once
    /\ Len(last.pre) = 2
    /\ StatusOf(last.pre).tag = "Stopped"
    /\ StatusOf(last.pre).duration > 0
    /\ Len(play_list) = 1
    /\ play_list[1].name # last.pre[1].name

\* C12: get_progress() changes nothing and returns the current_time and
\* total_time that the last tick() stored.
C12_ProgressFollowsTick ==
    last.op = "get_progress" =>
        /\ play_list = last.pre
        /\ last.ret = <<current_time, total_time>>

\* C13: whenever tick() returns with an empty play list, stop() has been
\* called on the sink during that tick(); in particular when that tick()
\* retired the only item.
C13_TickStopsWhenEmptied ==
    (last.op = "tick" /\ play_list = <<>>) => Called("stop")

\* the step is a tick() that has just retired a finished head
Retired == last.op = "tick" /\ Len(last.pre) = Len(play_list) + 1

\* C14 as claimed: after tick() has retired a finished head, the new head
\* stays Waiting across further tick() calls.
C14_NewHeadStaysWaiting ==
    [][(Retired /\ play_list # <<>> /\ last'.op = "tick") =>
          StatusOf(play_list') = Waiting
    ]_vars

\* C14 as amended: the tick() that retires a finished head leaves the new
\* head Waiting and the sink not paused; a later tick() that finds the head
\* Waiting makes it Playing(now, 0) unless the sink is paused, so the next
\* tick() starts the new head without any play() or add_to_list.
C14_NextTickStartsNewHead ==
    [][(last'.op = "tick" /\ play_list # <<>>) =>
        /\ (Len(play_list') = Len(play_list) - 1 /\ play_list' # <<>>) =>
              (StatusOf(play_list') = Waiting /\ ~sink'.paused)
        /\ StatusOf(play_list) = Waiting =>
              play_list' = IF sink.paused THEN play_list
                           ELSE WithStatus(play_list, Playing(now, 0))
        /\ Retired => play_list' = WithStatus(play_list, Playing(now, 0))
    ]_vars

\* tick() has retired a finished head and left its successor waiting
C14_Witness ==
    /\ Retired
    /\ play_list # <<>>
    /\ StatusOf(play_list) = Waiting
    /\ ~sink.paused

\* C15: stop() returns true and acts only on the sink: the play list,
\* current_time, total_time and the initialized flag are unchanged.
C15_StopFrame ==
    [][last'.op = "stop" =>
        /\ last'.ret = TRUE
        /\ last'.calls = <<"stop">>
        /\ UNCHANGED <<play_list, current_time, total_time, initialized>>
    ]_vars

\* stop() has been called while the head was playing
C15_Witness ==
    /\ last.op = "stop"
    /\ last.pre # <<>>
    /\ StatusOf(last.pre).tag = "Playing"
    /\ now > StatusOf(last.pre).instant
    /\ play_list = last.pre

\* C16 as claimed: right after a successful add_to_list(A, once = false)
\* on an empty play list, A is the head with status Waiting.
C16_AddedItemWaiting ==
    (last.op = "add_to_list" /\ last.ret = TRUE /\ ~last.once
        /\ last.pre = <<>>) =>
        (play_list # <<>> /\ StatusOf(play_list) = Waiting)

\* C16 as amended: right after a successful add_to_list(A, once = false)
\* on an empty play list, A is the head with status Playing(now, 0) and
\* the sink is not paused: add_to_list has called play() itself.
C16_AddedItemPlaying ==
    (last.op = "add_to_list" /\ last.ret = TRUE /\ ~last.once
        /\ last.pre = <<>>) =>
        /\ play_list = <<PlayListItem(last.media.name, last.media.duration,
                                      Playing(now, 0))>>
        /\ ~sink.paused
        /\ Called("play")

\* a once = false add on an empty list, after the first moment
C16_Witness ==
    /\ last.op = "add_to_list"
    /\ last.ret = TRUE
    /\ ~last.once
    /\ last.pre = <<>>
    /\ now > 0
    /\ Len(play_list) = 1

\* C17: tick() on a head Stopped(d) sets current_time = d and total_time =
\* the item's duration and changes neither status nor play list; tick() on
\* a head Playing(t0, d) with elapsed = (now - t0) + d < duration sets
\* current_time = elapsed and total_time = duration and changes neither.
C17_TickProgress ==
    [][(last'.op = "tick" /\ play_list # <<>>) =>
        LET song == Head(play_list)
            st == song.status
        IN /\ st.tag = "Stopped" =>
                /\ current_time' = st.duration
                /\ total_time' = song.duration
                /\ play_list' = play_list
           /\ (st.tag = "Playing" /\ Elapsed(st) < song.duration) =>
                /\ current_time' = Elapsed(st)
                /\ total_time' = song.duration
                /\ play_list' = play_list
    ]_vars

\* tick() on a head stopped at d, later than d
C17_Witness ==
    /\ last.op = "tick"
    /\ play_list # <<>>
    /\ play_list = last.pre
    /\ StatusOf(play_list).tag = "Stopped"
    /\ StatusOf(play_list).duration > 0
    /\ now > StatusOf(play_list).duration
    /\ current_time = StatusOf(play_list).duration
    /\ total_time = Head(play_list).duration

\* C18: if the sink is paused, the head item (if any) is not Playing.
C18_PausedNotPlaying ==
    (sink.paused /\ play_list # <<>>) => StatusOf(play_list).tag # "Playing"

\* tick() has left a Waiting head alone because the sink is paused
C18_Witness ==
    /\ sink.paused
    /\ last.op = "tick"
    /\ play_list # <<>>
    /\ StatusOf(play_list) = Waiting
    /\ initialized

\* the successful once = false add on a non-empty list
AddAppends ==
    /\ last'.op = "add_to_list"
    /\ last'.ret = TRUE
    /\ ~last'.once
    /\ play_list # <<>>

\* C19 as claimed: a successful add_to_list with once = false on a
\* non-empty play list only appends; the head keeps its status and a
\* paused sink stays paused.
C19_AddOnlyAppends ==
    [][AddAppends =>
        /\ play_list' = Append(play_list,
              PlayListItem(last'.media.name, last'.media.duration, Waiting))
        /\ sink'.paused = sink.paused
    ]_vars

\* C19 as amended: such an add appends the new item in Waiting status and
\* then applies play() and tick() to the old head: the sink is not paused
\* afterwards, a Waiting head becomes Playing(now, 0), a Stopped(d) head
\* becomes Playing(now, d), a Playing head is kept, and a head that has
\* then played to its end is removed.
C19_AddAppendsAndPlays ==
    [][AddAppends =>
        LET song == Head(play_list)
            st == song.status
            started == CASE st.tag = "Waiting" -> Playing(now, 0)
                         [] st.tag = "Playing" -> st
                         [] st.tag = "Stopped" -> Playing(now, st.duration)
            appended == Append(play_list,
                PlayListItem(last'.media.name, last'.media.duration, Waiting))
        IN /\ ~sink'.paused
           /\ play_list' = IF Elapsed(started) >= song.duration
                            THEN Tail(appended)
                            ELSE WithStatus(appended, started)
    ]_vars

\* an add behind a stopped head has set that head playing again
C19_Witness ==
    /\ last.op = "add_to_list"
    /\ last.ret = TRUE
    /\ ~last.once
    /\ Len(last.pre) = 1
    /\ StatusOf(last.pre).tag = "Stopped"
    /\ StatusOf(last.pre).duration > 0
    /\ Len(play_list) = 2
    /\ StatusOf(play_list) = Playing(now, StatusOf(last.pre).duration)

\* the caller has stopped calling anything but tick()
OnlyTicking == now > MaxTime

\* C20: once the caller only calls tick() while time advances, a non-empty
\* play list whose sink is not paused and whose head is not Stopped is
\* eventually empty; a Stopped head is never removed by tick().
C20_TickDrains ==
    /\ (OnlyTicking /\ play_list # <<>> /\ ~sink.paused
           /\ StatusOf(play_list).tag # "Stopped")
        ~> (play_list = <<>>)
    /\ [][(last'.op = "tick" /\ play_list # <<>>
            /\ StatusOf(play_list).tag = "Stopped") =>
              play_list' = play_list]_vars

\* tick() alone has played a list of two tracks to its end
C20_Witness ==
    /\ OnlyTicking
    /\ play_list = <<>>
    /\ last.op = "tick"
    /\ Len(last.pre) = 1
    /\ StatusOf(last.pre).instant > MaxTime
    /\ ~sink.paused

====
